---- MODULE Spec2Model ----
(***************************************************************************)
(* State-machine model of prompt_refiner_anatomy: the SafetyFilter, the    *)
(* EducationalFilter and the PromptRefiner enhancement engine.             *)
(*                                                                         *)
(* Text is modelled character by character: a Python str is a TLA+ string, *)
(* substring tests, str.lower, str.strip, str.format, ", ".join and the    *)
(* regular expressions of filters.py (whole-word literals and alternations *)
(* between \b anchors, \s+) are computed as the code computes them.        *)
(***************************************************************************)
EXTENDS Integers, Sequences, FiniteSets, TLC

(***************************************************************************)
(* Bounds of the model.                                                    *)
(***************************************************************************)
\* number of whitespace-separated words of a prompt given to a filter
MaxWords == 2
\* number of whitespace-separated words of a prompt given to enhance
MaxEnhanceWords == 1

(***************************************************************************)
(* Characters and strings.                                                 *)
(***************************************************************************)
Ch(s, i) == SubSeq(s, i, i)

UpperChars == "ABCDEFGHIJKLMNOPQRSTUVWXYZ"
LowerChars == "abcdefghijklmnopqrstuvwxyz"
DigitChars == "0123456789_"

CharsOf(s) == { Ch(s, i) : i \in 1..Len(s) }

UpperSet == CharsOf(UpperChars)

\* \w of Python's re for the ASCII range
WordChars == CharsOf(UpperChars) \cup CharsOf(LowerChars) \cup CharsOf(DigitChars)

\* \s of Python's re, and the characters str.strip() removes
SpaceChars == {" ", "\t", "\n"}

LowerOf == [ c \in UpperSet |->
               Ch(LowerChars, CHOOSE i \in 1..Len(UpperChars) : Ch(UpperChars, i) = c) ]

LowerChar(c) == IF c \in UpperSet THEN LowerOf[c] ELSE c

MinOf(S) == CHOOSE i \in S : \A j \in S : i <= j

\* the text from position  from  on, lower-cased: copied up to the next
\* capital letter, which is replaced
RECURSIVE LowerFrom(_, _)
LowerFrom(s, from) ==
    LET capitals == { i \in from..Len(s) : Ch(s, i) \in UpperSet }
    IN  IF capitals = {} THEN SubSeq(s, from, Len(s))
        ELSE SubSeq(s, from, MinOf(capitals) - 1)
             \o LowerChar(Ch(s, MinOf(capitals)))
             \o LowerFrom(s, MinOf(capitals) + 1)

\* str.lower()
Lower(s) == LowerFrom(s, 1)

\* str.strip()
Strip(s) ==
    LET keep == { i \in 1..Len(s) : Ch(s, i) \notin SpaceChars }
    IN  IF keep = {} THEN ""
        ELSE LET lo == CHOOSE i \in keep : \A j \in keep : i <= j
                 hi == CHOOSE i \in keep : \A j \in keep : j <= i
             IN  SubSeq(s, lo, hi)

\* Python's  needle in hay
Contains(hay, needle) ==
    \E i \in 1..(Len(hay) - Len(needle) + 1) :
        SubSeq(hay, i, i + Len(needle) - 1) = needle

StartsWith(s, p) == Len(p) <= Len(s) /\ SubSeq(s, 1, Len(p)) = p

EndsWith(s, p) == Len(p) <= Len(s) /\ SubSeq(s, Len(s) - Len(p) + 1, Len(s)) = p

RECURSIVE JoinFrom(_, _, _)
JoinFrom(parts, sep, i) ==
    IF i > Len(parts) THEN ""
    ELSE IF i = Len(parts) THEN parts[i]
    ELSE parts[i] \o sep \o JoinFrom(parts, sep, i + 1)

\* sep.join(parts)
Join(parts, sep) == JoinFrom(parts, sep, 1)

(***************************************************************************)
(* Regular expressions of filters.py.  A pattern  \b(a1|a2|...)\b  is the  *)
(* sequence of its literal alternatives in the order the regex engine      *)
(* tries them (an optional last letter  x?  is the longer literal first).  *)
(* All uses pass re.IGNORECASE: matching is done on the lower-cased text.  *)
(***************************************************************************)
IsWordAt(ls, i) == i >= 1 /\ i <= Len(ls) /\ Ch(ls, i) \in WordChars

\* \b at the position between character i-1 and character i
Boundary(ls, i) == IsWordAt(ls, i - 1) # IsWordAt(ls, i)

\* the literal  lit  (lower-cased) matches at position i between two \b
AltMatches(lit, ls, i) ==
    /\ Len(lit) > 0
    /\ i + Len(lit) - 1 <= Len(ls)
    /\ SubSeq(ls, i, i + Len(lit) - 1) = lit
    /\ Boundary(ls, i)
    /\ Boundary(ls, i + Len(lit))

\* length of the match of the pattern at position i, 0 when there is none:
\* the first alternative that matches wins
MatchLen(lalts, ls, i) ==
    LET ok == { k \in 1..Len(lalts) : AltMatches(lalts[k], ls, i) }
    IN  IF ok = {} THEN 0 ELSE Len(lalts[MinOf(ok)])

LowerAll(alts) == [ k \in 1..Len(alts) |-> Lower(alts[k]) ]

\* re.search(pattern, s, re.IGNORECASE) is not None
ReSearch(alts, s) ==
    LET ls == Lower(s)
        lalts == LowerAll(alts)
    IN  \E i \in 1..Len(ls) : MatchLen(lalts, ls, i) > 0

\* the text from position  from  on with every match replaced: copied up to
\* the leftmost match, the search resuming right after it
RECURSIVE ReSubFrom(_, _, _, _, _)
ReSubFrom(lalts, repl, s, ls, from) ==
    LET hits == { i \in from..Len(ls) : MatchLen(lalts, ls, i) > 0 }
    IN  IF hits = {} THEN SubSeq(s, from, Len(s))
        ELSE SubSeq(s, from, MinOf(hits) - 1) \o repl
             \o ReSubFrom(lalts, repl, s, ls,
                          MinOf(hits) + MatchLen(lalts, ls, MinOf(hits)))

\* re.sub(pattern, repl, s, flags=re.IGNORECASE)
ReSub(alts, repl, s) == ReSubFrom(LowerAll(alts), repl, s, Lower(s), 1)

\* the text from position  from  on with every run of \s replaced by one
\* blank
RECURSIVE CollapseFrom(_, _)
CollapseFrom(s, from) ==
    LET spaces == { i \in from..Len(s) : Ch(s, i) \in SpaceChars }
    IN  IF spaces = {} THEN SubSeq(s, from, Len(s))
        ELSE LET rest == { i \in MinOf(spaces)..Len(s) : Ch(s, i) \notin SpaceChars }
             IN  SubSeq(s, from, MinOf(spaces) - 1) \o " "
                 \o (IF rest = {} THEN "" ELSE CollapseFrom(s, MinOf(rest)))

\* re.sub(r'\s+', ' ', s)
CollapseSpaces(s) == CollapseFrom(s, 1)

\* the template from position  from  on with every  field  replaced
RECURSIVE FormatFrom(_, _, _, _)
FormatFrom(template, field, value, from) ==
    LET hits == { i \in from..(Len(template) - Len(field) + 1) :
                    SubSeq(template, i, i + Len(field) - 1) = field }
    IN  IF hits = {} THEN SubSeq(template, from, Len(template))
        ELSE SubSeq(template, from, MinOf(hits) - 1) \o value
             \o FormatFrom(template, field, value, MinOf(hits) + Len(field))

\* template.format(name=value) for a template whose only field is {name}
Format(template, name, value) ==
    FormatFrom(template, "{" \o name \o "}", value, 1)

(***************************************************************************)
(* Python values.                                                          *)
(***************************************************************************)
\* None, as an argument (focus) or as a return value
None == "<None>"

\* truth value of an optional string: None and "" are falsy
Truthy(x) == x # None /\ x # ""

Range(seq) == { seq[i] : i \in 1..Len(seq) }

\* the orders in which a Python set may be iterated
Perms(S) ==
    { p \in [1..Cardinality(S) -> S] :
        \A i, j \in 1..Cardinality(S) : i # j => p[i] # p[j] }

(***************************************************************************)
(* Vocabulary documents (data/anatomical_terms.json as loaded by           *)
(* PromptRefiner.__init__).  body_systems is a JSON object: a sequence of  *)
(* named entries in document order.                                        *)
(***************************************************************************)
VocabA ==
    [ body_systems |-> <<
        [ name |-> "circulatory", organs |-> <<"heart">>,
          structures |-> <<"artery">>, keywords |-> <<"pump">>,
          description |-> "moves blood around the body" ],
        [ name |-> "nervous", organs |-> <<"brain">>,
          structures |-> <<"nerve">>, keywords |-> <<"thinking">>,
          description |-> "controls the body" ] >>,
      forbidden_terms |-> <<"blood", "gore", "nude">>,
      enhancement_templates |->
        [ medical_illustration |-> "anatomical illustration of {organ}",
          cross_section |-> "cross-section view of {organ}",
          system_overview |-> "{system} system overview",
          educational_context |-> "educational diagram" ],
      focus_templates |->
        [ education |->
            [ style_prefix |-> "simple drawing of {organ}",
              context |-> "for children",
              style_modifiers |-> <<"bright colors", "clean lines">>,
              view_modifiers |-> <<"front view">>,
              optimization_tags |-> <<"no text", "white background">> ] ],
      style_modifiers |-> <<"clean lines", "flat shading">>,
      view_modifiers |-> <<"front view", "side view">>,
      optimization_tags_3d |-> <<"isolated", "centered", "no shadows">>,
      negative_prompt_additions |-> <<"blood", "gore", "labels">>,
      focus_negative_prompts |->
        [ education |-> <<"frightening">>,
          scientific |-> <<"cartoon">> ] ]

VocabB ==
    [ body_systems |-> <<
        [ name |-> "circulatory", organs |-> <<"heart">>,
          structures |-> <<"vein">>, keywords |-> <<"pump">>,
          description |-> "moves blood around the body" ],
        [ name |-> "muscular", organs |-> <<"muscle">>,
          structures |-> <<"heart">>, keywords |-> <<"move">>,
          description |-> "moves the body" ],
        [ name |-> "head", organs |-> <<"Brain", "ear">>,
          structures |-> << >>, keywords |-> <<"hearing">>,
          description |-> "where we think and hear" ] >>,
      forbidden_terms |-> <<"Blood", "scary">>,
      enhancement_templates |->
        [ medical_illustration |-> "anatomical structure of {organ}",
          cross_section |-> "{organ} cut in half",
          system_overview |-> "the whole {system} system",
          educational_context |-> "simple picture" ],
      focus_templates |->
        [ education |->
            [ style_prefix |-> "{organ} for a lesson",
              context |-> "classroom poster",
              style_modifiers |-> <<"bright colors">>,
              view_modifiers |-> <<"front view", "side view">>,
              optimization_tags |-> <<"no text">> ],
          scientific |->
            [ style_prefix |-> "specimen of {organ}",
              context |-> "reference plate",
              style_modifiers |-> <<"fine detail", "ink">>,
              view_modifiers |-> <<"side view">>,
              optimization_tags |-> <<"isolated">> ] ],
      style_modifiers |-> <<"soft light">>,
      view_modifiers |-> <<"front view">>,
      optimization_tags_3d |-> <<"isolated", "centered", "no shadows">>,
      negative_prompt_additions |-> <<"labels", "text">>,
      focus_negative_prompts |->
        [ education |-> <<"frightening", "scary">> ] ]

\* the documents a PromptRefiner is constructed from
Vocabularies == {VocabA, VocabB}

\* a document with two 3d_optimization_tags, and a focus without view
\* modifiers
VocabC ==
    [ body_systems |-> <<
        [ name |-> "circulatory", organs |-> <<"heart">>,
          structures |-> <<"artery">>, keywords |-> <<"pump">>,
          description |-> "moves blood around the body" ] >>,
      forbidden_terms |-> <<"blood">>,
      enhancement_templates |->
        [ medical_illustration |-> "anatomical illustration of {organ}",
          cross_section |-> "cross-section view of {organ}",
          system_overview |-> "{system} system overview",
          educational_context |-> "educational diagram" ],
      focus_templates |->
        [ education |->
            [ style_prefix |-> "simple drawing of {organ}",
              context |-> "for children",
              style_modifiers |-> <<"bright colors">>,
              view_modifiers |-> <<"front view">>,
              optimization_tags |-> <<"no text">> ],
          scientific |->
            [ style_prefix |-> "specimen of {organ}",
              context |-> "reference plate",
              style_modifiers |-> <<"fine detail">>,
              view_modifiers |-> << >>,
              optimization_tags |-> <<"isolated">> ] ],
      style_modifiers |-> <<"clean lines", "flat shading">>,
      view_modifiers |-> <<"front view">>,
      optimization_tags_3d |-> <<"isolated", "centered">>,
      negative_prompt_additions |-> <<"labels">>,
      focus_negative_prompts |->
        [ education |-> <<"frightening">> ] ]

\* a document with three global style modifiers and no global one in common
\* with its focus
VocabD ==
    [ body_systems |-> <<
        [ name |-> "nervous", organs |-> <<"brain">>,
          structures |-> <<"nerve">>, keywords |-> <<"thinking">>,
          description |-> "controls the body" ] >>,
      forbidden_terms |-> <<"gore">>,
      enhancement_templates |->
        [ medical_illustration |-> "anatomical illustration of {organ}",
          cross_section |-> "cross-section view of {organ}",
          system_overview |-> "{system} system overview",
          educational_context |-> "educational diagram" ],
      focus_templates |->
        [ education |->
            [ style_prefix |-> "simple drawing of {organ}",
              context |-> "for children",
              style_modifiers |-> <<"bright colors", "bold outline", "pastel",
                                    "rounded shapes">>,
              view_modifiers |-> <<"three-quarter view">>,
              optimization_tags |-> <<"no text">> ] ],
      style_modifiers |-> <<"clean lines", "flat shading", "soft light">>,
      view_modifiers |-> <<"front view">>,
      optimization_tags_3d |-> <<"isolated", "centered", "no shadows">>,
      negative_prompt_additions |-> <<"labels">>,
      focus_negative_prompts |->
        [ education |-> <<"frightening">> ] ]

\* every document, those whose lists are shorter than a draw included
AllVocabularies == Vocabularies \cup {VocabC, VocabD}

(***************************************************************************)
(* SafetyFilter (filters.py).                                              *)
(***************************************************************************)
\* SafetyFilter.__init__: the set of lower-cased forbidden terms
SafetyFilterInit(terms) == { Lower(terms[i]) : i \in 1..Len(terms) }

nsfw_patterns ==
    << <<"nude", "nud", "naked", "undressed">>,
       <<"sexual", "sexua", "erotic", "arousal">>,
       <<"genital", "penis", "vagina", "breast">>,
       <<"reproductive", "fertility", "conception">> >>

advanced_medical ==
    << <<"dissection", "diagram">>,
       <<"autopsy", "study">>,
       <<"cadaver", "model">>,
       <<"surgical", "medical">>,
       <<"pathology", "health study">>,
       <<"trauma", "injury study">>,
       <<"blood", "circulation">>,
       <<"gore", "anatomy">> >>

SafeFallback == "human anatomy educational diagram"

\* the loop over self.forbidden_terms, iterated in the order  order
RECURSIVE RemoveForbidden(_, _, _)
RemoveForbidden(cleaned, order, i) ==
    IF i > Len(order) THEN cleaned
    ELSE RemoveForbidden(
            IF Contains(cleaned, order[i])
            THEN ReSub(<<order[i]>>, "", cleaned)
            ELSE cleaned,
            order, i + 1)

\* the loop over self.advanced_medical.items()
RECURSIVE ReplaceAdvanced(_, _)
ReplaceAdvanced(cleaned, i) ==
    IF i > Len(advanced_medical) THEN cleaned
    ELSE ReplaceAdvanced(
            ReSub(<<advanced_medical[i][1]>>, advanced_medical[i][2], cleaned),
            i + 1)

\* the loop over self.nsfw_patterns
RECURSIVE RemoveNsfw(_, _)
RemoveNsfw(cleaned, i) ==
    IF i > Len(nsfw_patterns) THEN cleaned
    ELSE RemoveNsfw(
            IF ReSearch(nsfw_patterns[i], cleaned)
            THEN ReSub(nsfw_patterns[i], "", cleaned)
            ELSE cleaned,
            i + 1)

\* clean_prompt without the safe fallback of lines 81-84
clean_prompt_no_fallback(order, prompt) ==
    LET lowered   == Strip(Lower(prompt))
        deleted   == RemoveForbidden(lowered, order, 1)
        replaced  == ReplaceAdvanced(deleted, 1)
        filtered  == RemoveNsfw(replaced, 1)
    IN  Strip(CollapseSpaces(filtered))

\* clean_prompt making the advanced-medical substitutions before it deletes
\* the forbidden terms
clean_prompt_substitute_first(order, prompt) ==
    LET lowered   == Strip(Lower(prompt))
        replaced  == ReplaceAdvanced(lowered, 1)
        deleted   == RemoveForbidden(replaced, order, 1)
        filtered  == RemoveNsfw(deleted, 1)
        cleaned   == Strip(CollapseSpaces(filtered))
    IN  IF cleaned = "" THEN SafeFallback ELSE cleaned

\* SafetyFilter.clean_prompt, the forbidden-term set iterated in  order
clean_prompt(order, prompt) ==
    LET lowered   == Strip(Lower(prompt))
        deleted   == RemoveForbidden(lowered, order, 1)
        replaced  == ReplaceAdvanced(deleted, 1)
        filtered  == RemoveNsfw(replaced, 1)
        cleaned   == Strip(CollapseSpaces(filtered))
    IN  IF cleaned = "" THEN SafeFallback ELSE cleaned

\* the results clean_prompt can return: one per iteration order of the set
CleanOutcomes(fterms, prompt) ==
    { clean_prompt(order, prompt) : order \in Perms(fterms) }

\* is_safe testing forbidden terms as whole words, as clean_prompt deletes them
is_safe_whole_word(fterms, prompt) ==
    LET prompt_lower == Lower(prompt)
    IN  /\ \A term \in fterms : ~ReSearch(<<term>>, prompt_lower)
        /\ \A i \in 1..Len(nsfw_patterns) :
              ~ReSearch(nsfw_patterns[i], prompt_lower)

\* SafetyFilter.is_safe
is_safe(fterms, prompt) ==
    LET prompt_lower == Lower(prompt)
    IN  /\ \A term \in fterms : ~Contains(prompt_lower, term)
        /\ \A i \in 1..Len(nsfw_patterns) :
              ~ReSearch(nsfw_patterns[i], prompt_lower)

(***************************************************************************)
(* EducationalFilter (filters.py).                                         *)
(***************************************************************************)
\* EducationalFilter.__init__: lower-cased organs and keywords of all systems
EducationalFilterInit(body_systems) ==
    UNION { { Lower(t) : t \in Range(body_systems[i].organs) }
            \cup { Lower(t) : t \in Range(body_systems[i].keywords) }
            : i \in 1..Len(body_systems) }

educational_indicators ==
    [ positive |-> <<"diagram", "illustration", "educational", "learning",
                     "study", "science", "anatomy", "medical", "textbook",
                     "simplified">>,
      negative |-> <<"complex", "advanced", "professional", "clinical",
                     "pathological">> ]

simplifications ==
    << <<"anatomical structure", "body part">>,
       <<"physiological", "body function">>,
       <<"morphology", "shape">>,
       <<"pathophysiology", "how illness affects the body">>,
       <<"biomechanics", "how the body moves">>,
       <<"histology", "tissue study">> >>

_contains_valid_anatomy(vterms, prompt) ==
    LET prompt_lower == Lower(prompt)
    IN  \E term \in vterms : Contains(prompt_lower, term)

_has_educational_context(prompt) ==
    LET prompt_lower == Lower(prompt)
    IN  \E i \in 1..Len(educational_indicators.positive) :
            Contains(prompt_lower, educational_indicators.positive[i])

RECURSIVE SimplifyFrom(_, _)
SimplifyFrom(result, i) ==
    IF i > Len(simplifications) THEN result
    ELSE SimplifyFrom(
            ReSub(<<simplifications[i][1]>>, simplifications[i][2], result),
            i + 1)

_simplify_language(prompt) == SimplifyFrom(prompt, 1)

AnatomyPrefix == "human anatomy educational diagram, "

EducationalSuffix == ", educational illustration for elementary science"

\* ensure_appropriate deciding on the suffix from the prompt it was given,
\* whether or not the prefix was added
ensure_appropriate_independent(vterms, prompt) ==
    LET prefixed == IF ~_contains_valid_anatomy(vterms, prompt)
                    THEN AnatomyPrefix \o prompt
                    ELSE prompt
        suffixed == IF ~_has_educational_context(prompt)
                    THEN prefixed \o EducationalSuffix
                    ELSE prefixed
    IN  _simplify_language(suffixed)

\* ensure_appropriate without the step that adds the educational context
ensure_appropriate_no_suffix(vterms, prompt) ==
    LET prefixed == IF ~_contains_valid_anatomy(vterms, prompt)
                    THEN AnatomyPrefix \o prompt
                    ELSE prompt
    IN  _simplify_language(prefixed)

\* EducationalFilter.ensure_appropriate
ensure_appropriate(vterms, prompt) ==
    LET prefixed == IF ~_contains_valid_anatomy(vterms, prompt)
                    THEN AnatomyPrefix \o prompt
                    ELSE prompt
        suffixed == IF ~_has_educational_context(prefixed)
                    THEN prefixed \o EducationalSuffix
                    ELSE prefixed
    IN  _simplify_language(suffixed)

\* an exception leaving a lookup
KeyError == [ outcome |-> "raised" ]

\* the entries of body_systems stored under  system_name  (dict lookup)
SystemsNamed(body_systems, system_name) ==
    SelectSeq(body_systems, LAMBDA sd : sd.name = system_name)

\* EducationalFilter.validate_system_focus
validate_system_focus(body_systems, prompt, system_name) ==
    IF SystemsNamed(body_systems, system_name) = << >>
    THEN [ outcome |-> "ok", valid |-> FALSE ]
    ELSE LET system_data == SystemsNamed(body_systems, system_name)[1]
             prompt_lower == Lower(prompt)
             system_terms == system_data.organs \o system_data.keywords
         IN  [ outcome |-> "ok",
               valid |-> \E term \in Range(system_terms) :
                            Contains(prompt_lower, Lower(term)) ]

GenericDescription == "body system that helps keep us healthy"

\* get_age_appropriate_description indexing body_systems without the
\* membership test of line 228
get_age_appropriate_description_no_guard(body_systems, system_name) ==
    IF SystemsNamed(body_systems, system_name) = << >>
    THEN KeyError
    ELSE [ outcome |-> "ok",
           value |-> SystemsNamed(body_systems, system_name)[1].description ]

\* EducationalFilter.get_age_appropriate_description
get_age_appropriate_description(body_systems, system_name) ==
    IF SystemsNamed(body_systems, system_name) = << >>
    THEN [ outcome |-> "ok", value |-> GenericDescription ]
    ELSE [ outcome |-> "ok",
           value |-> SystemsNamed(body_systems, system_name)[1].description ]

(***************************************************************************)
(* PromptRefiner (enhancer.py).                                            *)
(***************************************************************************)
\* the names of the entries of body_systems, in document order
SystemNames(d) == [ i \in 1..Len(d.body_systems) |-> d.body_systems[i].name ]

\* the terms one system contributes to the  detected  list: matching organs,
\* then matching structures
SystemMatches(system_data, prompt_lower) ==
    SelectSeq(system_data.organs,
              LAMBDA organ : Contains(prompt_lower, Lower(organ)))
    \o SelectSeq(system_data.structures,
                 LAMBDA structure : Contains(prompt_lower, Lower(structure)))

\* the  detected  list of _detect_anatomical_terms before duplicates go
RECURSIVE DetectedList(_, _, _)
DetectedList(d, prompt_lower, i) ==
    IF i > Len(d.body_systems) THEN << >>
    ELSE SystemMatches(d.body_systems[i], prompt_lower)
         \o DetectedList(d, prompt_lower, i + 1)

\* _detect_anatomical_terms returning  detected  with its duplicates
_detect_anatomical_terms_no_dedup(d, prompt) ==
    { DetectedList(d, Lower(prompt), 1) }

\* PromptRefiner._detect_anatomical_terms: list(set(detected)) may come out
\* in any order
_detect_anatomical_terms(d, prompt) ==
    Perms(Range(DetectedList(d, Lower(prompt), 1)))

\* _detect_body_systems looking at the organs of a system only
_detect_body_systems_organs_only(d, detected_terms) ==
    LET Belongs(system_data) ==
            \E term \in Range(detected_terms) :
                Lower(term) \in { Lower(t) : t \in Range(system_data.organs) }
        hits == SelectSeq(d.body_systems, Belongs)
    IN  [ i \in 1..Len(hits) |-> hits[i].name ]

\* _detect_body_systems stopping at the first system it finds
_detect_body_systems_first_only(d, detected_terms) ==
    LET Belongs(system_data) ==
            LET system_terms == system_data.organs \o system_data.structures
            IN  \E term \in Range(detected_terms) :
                    Lower(term) \in { Lower(t) : t \in Range(system_terms) }
        hits == SelectSeq(d.body_systems, Belongs)
    IN  [ i \in 1..(IF hits = << >> THEN 0 ELSE 1) |-> hits[i].name ]

\* PromptRefiner._detect_body_systems
_detect_body_systems(d, detected_terms) ==
    LET Belongs(system_data) ==
            LET system_terms == system_data.organs \o system_data.structures
            IN  \E term \in Range(detected_terms) :
                    Lower(term) \in { Lower(t) : t \in Range(system_terms) }
        hits == SelectSeq(d.body_systems, Belongs)
    IN  [ i \in 1..Len(hits) |-> hits[i].name ]

\* random.sample(population, k): k distinct positions in any order; the
\* empty set stands for ValueError (k larger than the population)
Sample(population, k) ==
    { [ i \in 1..k |-> population[f[i]] ] :
        f \in { g \in [1..k -> 1..Len(population)] :
                  \A i, j \in 1..k : i # j => g[i] # g[j] } }

\* random.choice(seq): the empty set stands for IndexError
Choice(seq) == Range(seq)

Min(a, b) == IF a <= b THEN a ELSE b

\* a focus branch that appends no view-specific fragment
view_parts_focus_none(d, view_type, detected_terms, detected_systems) == << >>

\* the view-specific fragment of the focus branch
view_parts_focus(d, view_type, detected_terms, detected_systems) ==
    IF view_type = "cross_section" /\ detected_terms # << >>
    THEN << Format(d.enhancement_templates.cross_section, "organ", detected_terms[1]) >>
    ELSE IF view_type = "system_overview" /\ detected_systems # << >>
    THEN << Format(d.enhancement_templates.system_overview, "system", detected_systems[1]) >>
    ELSE << >>

\* a default branch filling the cross_section template with the last
\* detected term
view_parts_default_last_term(d, view_type, detected_terms, detected_systems) ==
    IF view_type = "cross_section" /\ detected_terms # << >>
    THEN << Format(d.enhancement_templates.cross_section, "organ",
                   detected_terms[Len(detected_terms)]) >>
    ELSE IF view_type = "system_overview" /\ detected_systems # << >>
    THEN << Format(d.enhancement_templates.system_overview, "system", detected_systems[1]) >>
    ELSE << >>

\* the view-specific fragment of the default branch
view_parts_default(d, view_type, detected_terms, detected_systems) ==
    IF view_type = "cross_section" /\ detected_terms # << >>
    THEN << Format(d.enhancement_templates.cross_section, "organ", detected_terms[1]) >>
    ELSE IF view_type = "system_overview" /\ detected_systems # << >>
    THEN << Format(d.enhancement_templates.system_overview, "system", detected_systems[1]) >>
    ELSE << >>

\* does the call take the focus branch of _build_positive_prompt
UsesFocusTemplate(d, focus) ==
    Truthy(focus) /\ focus \in DOMAIN d.focus_templates

\* a focus branch drawing its style modifiers from the global list
focus_parts_global_modifiers(d, original_prompt, detected_terms, detected_systems, view_type, focus) ==
    LET primary_term == IF detected_terms # << >> THEN detected_terms[1]
                        ELSE original_prompt
        focus_config == d.focus_templates[focus]
        head == << Format(focus_config.style_prefix, "organ", primary_term),
                   focus_config.context >>
                \o view_parts_focus(d, view_type, detected_terms, detected_systems)
    IN  { head \o style_modifiers \o <<view_modifier>> \o optimization_tags :
            style_modifiers \in Sample(d.style_modifiers,
                                       Min(3, Len(d.style_modifiers))),
            view_modifier \in Choice(focus_config.view_modifiers),
            optimization_tags \in Sample(focus_config.optimization_tags,
                                         Min(4, Len(focus_config.optimization_tags))) }

\* the focus branch: the lists of parts the random draws can produce
focus_parts(d, original_prompt, detected_terms, detected_systems, view_type, focus) ==
    LET primary_term == IF detected_terms # << >> THEN detected_terms[1]
                        ELSE original_prompt
        focus_config == d.focus_templates[focus]
        head == << Format(focus_config.style_prefix, "organ", primary_term),
                   focus_config.context >>
                \o view_parts_focus(d, view_type, detected_terms, detected_systems)
    IN  { head \o style_modifiers \o <<view_modifier>> \o optimization_tags :
            style_modifiers \in Sample(focus_config.style_modifiers,
                                       Min(3, Len(focus_config.style_modifiers))),
            view_modifier \in Choice(focus_config.view_modifiers),
            optimization_tags \in Sample(focus_config.optimization_tags,
                                         Min(4, Len(focus_config.optimization_tags))) }

\* a default branch whose fallback fragment is the prompt alone
default_parts_no_literal(d, original_prompt, detected_terms, detected_systems, view_type) ==
    LET primary_term == IF detected_terms # << >> THEN detected_terms[1]
                        ELSE original_prompt
        base == IF detected_terms # << >>
                THEN Format(d.enhancement_templates.medical_illustration,
                            "organ", primary_term)
                ELSE original_prompt
        head == <<base>>
                \o view_parts_default(d, view_type, detected_terms, detected_systems)
                \o << d.enhancement_templates.educational_context >>
    IN  { head \o style_modifiers \o <<view_modifier>> \o optimization_tags :
            style_modifiers \in Sample(d.style_modifiers,
                                       Min(2, Len(d.style_modifiers))),
            view_modifier \in Choice(d.view_modifiers),
            optimization_tags \in Sample(d.optimization_tags_3d, 3) }

\* a default branch that clamps the number of optimization tags it draws
default_parts_clamped_tags(d, original_prompt, detected_terms, detected_systems, view_type) ==
    LET primary_term == IF detected_terms # << >> THEN detected_terms[1]
                        ELSE original_prompt
        base == IF detected_terms # << >>
                THEN Format(d.enhancement_templates.medical_illustration,
                            "organ", primary_term)
                ELSE "anatomical illustration, " \o original_prompt
        head == <<base>>
                \o view_parts_default(d, view_type, detected_terms, detected_systems)
                \o << d.enhancement_templates.educational_context >>
    IN  { head \o style_modifiers \o <<view_modifier>> \o optimization_tags :
            style_modifiers \in Sample(d.style_modifiers,
                                       Min(2, Len(d.style_modifiers))),
            view_modifier \in Choice(d.view_modifiers),
            optimization_tags \in Sample(d.optimization_tags_3d,
                                         Min(3, Len(d.optimization_tags_3d))) }

\* the default branch: the lists of parts the random draws can produce
default_parts(d, original_prompt, detected_terms, detected_systems, view_type) ==
    LET primary_term == IF detected_terms # << >> THEN detected_terms[1]
                        ELSE original_prompt
        base == IF detected_terms # << >>
                THEN Format(d.enhancement_templates.medical_illustration,
                            "organ", primary_term)
                ELSE "anatomical illustration, " \o original_prompt
        head == <<base>>
                \o view_parts_default(d, view_type, detected_terms, detected_systems)
                \o << d.enhancement_templates.educational_context >>
    IN  { head \o style_modifiers \o <<view_modifier>> \o optimization_tags :
            style_modifiers \in Sample(d.style_modifiers,
                                       Min(2, Len(d.style_modifiers))),
            view_modifier \in Choice(d.view_modifiers),
            optimization_tags \in Sample(d.optimization_tags_3d, 3) }

\* PromptRefiner._build_positive_prompt: the lists of parts it can assemble
\* (joined with ", " by the caller of this operator); empty when a draw raises
_build_positive_prompt(d, original_prompt, detected_terms, detected_systems, view_type, focus) ==
    IF UsesFocusTemplate(d, focus)
    THEN focus_parts(d, original_prompt, detected_terms, detected_systems, view_type, focus)
    ELSE default_parts(d, original_prompt, detected_terms, detected_systems, view_type)

\* _build_negative_prompt that ignores the focus
_build_negative_prompt_base_only(d, focus) ==
    [ negative |-> Join(d.negative_prompt_additions, ", "), data |-> d ]

\* _build_negative_prompt extending the base list itself, without .copy()
_build_negative_prompt_no_copy(d, focus) ==
    LET extended == IF Truthy(focus) /\ focus \in DOMAIN d.focus_negative_prompts
                    THEN d.negative_prompt_additions \o d.focus_negative_prompts[focus]
                    ELSE d.negative_prompt_additions
    IN  [ negative |-> Join(extended, ", "),
          data |-> [ d EXCEPT !.negative_prompt_additions = extended ] ]

\* PromptRefiner._build_negative_prompt: the joined text, and the vocabulary
\* document as the call leaves it (negative_parts is a copy of the base list)
_build_negative_prompt(d, focus) ==
    LET negative_parts == d.negative_prompt_additions
        extended == IF Truthy(focus) /\ focus \in DOMAIN d.focus_negative_prompts
                    THEN negative_parts \o d.focus_negative_prompts[focus]
                    ELSE negative_parts
    IN  [ negative |-> Join(extended, ", "), data |-> d ]

\* an exception leaving enhance
Raised(d) == [ outcome |-> "raised", data |-> d ]

\* enhance handing the prompt as the caller gave it, not the cleaned one, to
\* _build_positive_prompt
enhance_original_prompt(d, fterms, vterms, prompt, focus, view_type) ==
    UNION { UNION {
        LET detected_systems == _detect_body_systems(d, detected_terms)
            assembled == _build_positive_prompt(d, prompt, detected_terms,
                                                detected_systems, view_type, focus)
            neg == _build_negative_prompt(d, focus)
        IN  IF assembled = {} THEN { Raised(d) }
            ELSE { [ outcome |-> "ok",
                     positive |-> ensure_appropriate(vterms, Join(parts, ", ")),
                     negative |-> neg.negative,
                     detected_terms |-> detected_terms,
                     detected_systems |-> detected_systems,
                     cleaned_prompt |-> cleaned_prompt,
                     parts |-> parts,
                     data |-> neg.data ] : parts \in assembled }
        : detected_terms \in _detect_anatomical_terms(d, cleaned_prompt) }
        : cleaned_prompt \in CleanOutcomes(fterms, prompt) }

\* PromptRefiner.enhance: every result the call can have, with the document
\* as the call leaves it.  cleaned_prompt and parts are the call's locals.
enhance(d, fterms, vterms, prompt, focus, view_type) ==
    UNION { UNION {
        LET detected_systems == _detect_body_systems(d, detected_terms)
            assembled == _build_positive_prompt(d, cleaned_prompt, detected_terms,
                                                detected_systems, view_type, focus)
            neg == _build_negative_prompt(d, focus)
        IN  IF assembled = {} THEN { Raised(d) }
            ELSE { [ outcome |-> "ok",
                     positive |-> ensure_appropriate(vterms, Join(parts, ", ")),
                     negative |-> neg.negative,
                     detected_terms |-> detected_terms,
                     detected_systems |-> detected_systems,
                     cleaned_prompt |-> cleaned_prompt,
                     parts |-> parts,
                     data |-> neg.data ] : parts \in assembled }
        : detected_terms \in _detect_anatomical_terms(d, cleaned_prompt) }
        : cleaned_prompt \in CleanOutcomes(fterms, prompt) }

\* an Optional return value: None, or a value
NoneResult == [ outcome |-> "ok", is_none |-> TRUE ]

Some(v) == [ outcome |-> "ok", is_none |-> FALSE, value |-> v ]

\* PromptRefiner.get_system_info: dict.get on body_systems
get_system_info(d, system_name) ==
    LET hits == SelectSeq(d.body_systems, LAMBDA sd : sd.name = system_name)
    IN  IF hits = << >> THEN NoneResult ELSE Some(hits[1])

\* PromptRefiner.list_supported_terms: (system name, terms) in document order
list_supported_terms(d) ==
    [ i \in 1..Len(d.body_systems) |->
        [ name |-> d.body_systems[i].name,
          terms |-> d.body_systems[i].organs \o d.body_systems[i].structures ] ]

(***************************************************************************)
(* DiffusersWrapper (integration/diffusers_hook.py).  Keyword arguments    *)
(* are a function from parameter names to values.  The wrapped pipeline is *)
(* the environment: called with keyword arguments it returns an image or   *)
(* raises.                                                                 *)
(***************************************************************************)
Image == "<image>"

\* DiffusersWrapper.__call__ passing the engine's negative prompt whatever
\* the caller supplied
__call__always_negative(d, fterms, vterms, prompt, focus, view_type, kwargs) ==
    UNION {
        IF enhanced.outcome = "raised"
        THEN { [ outcome |-> "raised", by |-> "enhance", data |-> enhanced.data ] }
        ELSE LET sent == [ k \in DOMAIN kwargs \cup {"prompt", "negative_prompt"} |->
                            IF k = "prompt" THEN enhanced.positive
                            ELSE IF k = "negative_prompt" THEN enhanced.negative
                            ELSE kwargs[k] ]
             IN  { [ outcome |-> "ok", sent |-> sent, image |-> Image,
                     data |-> enhanced.data ],
                   [ outcome |-> "raised", by |-> "pipeline", sent |-> sent,
                     data |-> enhanced.data ] }
        : enhanced \in enhance(d, fterms, vterms, prompt, focus, view_type) }

\* DiffusersWrapper.__call__: every way the call can end;  sent  is what the
\* wrapped pipeline was called with
__call__(d, fterms, vterms, prompt, focus, view_type, kwargs) ==
    UNION {
        IF enhanced.outcome = "raised"
        THEN { [ outcome |-> "raised", by |-> "enhance", data |-> enhanced.data ] }
        ELSE LET sent == [ k \in DOMAIN kwargs \cup {"prompt", "negative_prompt"} |->
                            IF k = "prompt" THEN enhanced.positive
                            ELSE IF k = "negative_prompt" /\ k \notin DOMAIN kwargs
                            THEN enhanced.negative
                            ELSE kwargs[k] ]
             IN  { [ outcome |-> "ok", sent |-> sent, image |-> Image,
                     data |-> enhanced.data ],
                   [ outcome |-> "raised", by |-> "pipeline", sent |-> sent,
                     data |-> enhanced.data ] }
        : enhanced \in enhance(d, fterms, vterms, prompt, focus, view_type) }

\* self(prompt, **kwargs) of generate_batch: did the call raise, and what it
\* returned.  A  prompt  among the keyword arguments is a TypeError; focus
\* and view_type among them bind to the parameters of __call__.
ItemOutcomes(d, fterms, vterms, prompt, kwargs) ==
    IF "prompt" \in DOMAIN kwargs
    THEN { [ raised |-> TRUE, value |-> None ] }
    ELSE LET focus == IF "focus" \in DOMAIN kwargs THEN kwargs["focus"] ELSE None
             view_type == IF "view_type" \in DOMAIN kwargs
                          THEN kwargs["view_type"] ELSE "standard"
             rest == [ k \in DOMAIN kwargs \ {"focus", "view_type"} |-> kwargs[k] ]
         IN  { IF o.outcome = "raised"
               THEN [ raised |-> TRUE, value |-> None ]
               ELSE [ raised |-> FALSE, value |-> o.image ]
               : o \in __call__(d, fterms, vterms, prompt, focus, view_type, rest) }

\* the loop of generate_batch from item i on: per item the term, whether its
\* call raised (the failure the loop logs) and the entry appended to results
RECURSIVE BatchFrom(_, _, _, _, _, _)
BatchFrom(d, fterms, vterms, prompts, kwargs, i) ==
    IF i > Len(prompts) THEN { << >> }
    ELSE { << [ term |-> prompts[i], raised |-> o.raised, value |-> o.value ] >> \o rest :
             o \in ItemOutcomes(d, fterms, vterms, prompts[i], kwargs),
             rest \in BatchFrom(d, fterms, vterms, prompts, kwargs, i + 1) }

\* the loop of generate_batch without its try/except: it ends at the first
\* item whose call raises
RECURSIVE BatchUntilFailure(_, _, _, _, _, _)
BatchUntilFailure(d, fterms, vterms, prompts, kwargs, i) ==
    IF i > Len(prompts) THEN { << >> }
    ELSE UNION {
            IF o.raised
            THEN { << [ term |-> prompts[i], raised |-> TRUE, value |-> None ] >> }
            ELSE { << [ term |-> prompts[i], raised |-> FALSE, value |-> o.value ] >> \o rest :
                     rest \in BatchUntilFailure(d, fterms, vterms, prompts, kwargs, i + 1) }
            : o \in ItemOutcomes(d, fterms, vterms, prompts[i], kwargs) }

\* generate_batch letting the exception of an item leave the loop
generate_batch_no_except(d, fterms, vterms, prompts, kwargs) ==
    { IF \E i \in 1..Len(a) : a[i].raised
      THEN [ outcome |-> "raised",
             attempts |-> [ i \in 1..Len(a) |-> [ term |-> a[i].term, raised |-> a[i].raised ] ] ]
      ELSE [ outcome |-> "ok",
             results |-> [ i \in 1..Len(a) |-> a[i].value ],
             attempts |-> [ i \in 1..Len(a) |-> [ term |-> a[i].term, raised |-> a[i].raised ] ] ]
      : a \in BatchUntilFailure(d, fterms, vterms, prompts, kwargs, 1) }

\* DiffusersWrapper.generate_batch: the list it returns, and the calls it made
generate_batch(d, fterms, vterms, prompts, kwargs) ==
    { [ outcome |-> "ok",
        results |-> [ i \in 1..Len(a) |-> a[i].value ],
        attempts |-> [ i \in 1..Len(a) |-> [ term |-> a[i].term, raised |-> a[i].raised ] ] ]
      : a \in BatchFrom(d, fterms, vterms, prompts, kwargs, 1) }

(***************************************************************************)
(* The command line (__main__.py).  What is printed is modelled by the     *)
(* reports written to stdout and the messages written to stderr.           *)
(***************************************************************************)
\* the process ends: sys.exit(code), or main returns (code 0)
Exit(code, stdout, stderr, enhance_called) ==
    [ outcome |-> "exit", code |-> code, stdout |-> stdout, stderr |-> stderr,
      enhance_called |-> enhance_called ]

\* show_system_info
show_system_info(d, system_name, output_format) ==
    LET info == get_system_info(d, Lower(system_name))
    IN  IF info.is_none
        THEN Exit(1, << "Available systems: " \o Join(SystemNames(d), ", ") >>,
                  << "Unknown body system: " \o system_name >>, FALSE)
        ELSE Exit(0, << "system info as " \o output_format >>, << >>, FALSE)

\* main ending with status 0 after it printed the usage help
main_help_exits_zero(d, fterms, vterms, args) ==
    IF args.list_terms
    THEN { Exit(0, << "terms as " \o args.output >>, << >>, FALSE) }
    ELSE IF Truthy(args.system_info)
    THEN { show_system_info(d, args.system_info, args.output) }
    ELSE IF ~Truthy(args.prompt)
    THEN { Exit(0, << "usage" >>, << >>, FALSE) }
    ELSE { IF r.outcome = "raised"
           THEN Exit(1, << >>,
                     << "Error enhancing prompt" >>
                        \o (IF args.verbose THEN << "traceback" >> ELSE << >>),
                     TRUE)
           ELSE Exit(0, << "enhancement as " \o args.output >>, << >>, TRUE)
           : r \in enhance(d, fterms, vterms, args.prompt, args.focus, args.view_type) }

\* main, after argparse and the construction of the PromptRefiner
main(d, fterms, vterms, args) ==
    IF args.list_terms
    THEN { Exit(0, << "terms as " \o args.output >>, << >>, FALSE) }
    ELSE IF Truthy(args.system_info)
    THEN { show_system_info(d, args.system_info, args.output) }
    ELSE IF ~Truthy(args.prompt)
    THEN { Exit(1, << "usage" >>, << >>, FALSE) }
    ELSE { IF r.outcome = "raised"
           THEN Exit(1, << >>,
                     << "Error enhancing prompt" >>
                        \o (IF args.verbose THEN << "traceback" >> ELSE << >>),
                     TRUE)
           ELSE Exit(0, << "enhancement as " \o args.output >>, << >>, TRUE)
           : r \in enhance(d, fterms, vterms, args.prompt, args.focus, args.view_type) }

(***************************************************************************)
(* Arguments the callers pass.                                             *)
(***************************************************************************)
\* the prompts of at most n words of  words  separated by one blank; the
\* empty word gives leading, trailing and doubled blanks
PromptsOf(words, n) ==
    UNION { { Join(w, " ") : w \in [1..k -> words] } : k \in 0..n }

FilterWords == {"", "heart", "Blood", "bloody", "gore", "nude", "naked", "autopsy"}

EduWords == {"", "heart", "flibberjib", "diagram", "Morphology", "anatomical",
             "structure", "pump"}

EnhanceWords == {"", "heart", "Brain", "flibberjib", "blood", "autopsy"}

FilterPrompts == PromptsOf(FilterWords, MaxWords)

EduPrompts == PromptsOf(EduWords, MaxWords)

EnhancePrompts == PromptsOf(EnhanceWords, MaxEnhanceWords)

FocusArgs == {None, "", "education", "scientific"}

ViewArgs == {"standard", "cross_section", "system_overview", "top_down"}

SystemArgs == {"circulatory", "head", "unknown"}

ValidatePrompts == {"", "heart pump", "Brain thinking", "an ARTERY", "flibberjib"}

\* the call has no keyword argument besides its named parameters
NoKwargs == [ k \in {} |-> "" ]

\* keyword arguments of a call of the wrapper
CallKwargs ==
    { NoKwargs,
      [ negative_prompt |-> "blurry" ],
      [ num_inference_steps |-> "30", guidance_scale |-> "7.5" ],
      [ negative_prompt |-> "", num_inference_steps |-> "30" ] }

WrapperPrompts == {"heart", "flibberjib"}

WrapperFocusArgs == {None, "education"}

WrapperViewArgs == {"standard", "cross_section"}

\* keyword arguments of generate_batch, handed on to every call
BatchKwargs ==
    { NoKwargs,
      [ focus |-> "education", num_inference_steps |-> "30" ],
      [ focus |-> "scientific", view_type |-> "cross_section" ],
      [ prompt |-> "lungs" ] }

BatchTerms == {"heart", "flibberjib"}

\* number of terms of a batch
MaxBatch == 2

Batches == UNION { [1..k -> BatchTerms] : k \in 0..MaxBatch }

\* the parsed command line: argparse restricts focus, view_type and output to
\* its choices; an option not given is None
MainArgs ==
    [ prompt : {None, "", "heart"},
      focus : {None, "education"},
      view_type : {"standard", "cross_section"},
      output : {"text", "json"},
      list_terms : BOOLEAN,
      system_info : {None, "", "Circulatory", "unknown"},
      verbose : BOOLEAN ]

(***************************************************************************)
(* The state machine: one PromptRefiner with its two filters, and a caller *)
(* that makes one call at a time and then drops the result.                *)
(***************************************************************************)
VARIABLES
    data,             \* PromptRefiner.data, the vocabulary document
    forbidden_terms,  \* SafetyFilter.forbidden_terms
    valid_terms,      \* EducationalFilter.valid_terms
    pc,               \* "idle": no call made; "done": a call has returned
    call,             \* the operation called and its arguments
    result            \* what the call returned

vars == <<data, forbidden_terms, valid_terms, pc, call, result>>

NoCall == [ op |-> "none" ]

NoResult == [ outcome |-> "none" ]

\* PromptRefiner.__init__ on one of the documents of  vocabularies
InitWith(vocabularies) ==
    /\ data \in vocabularies
    /\ forbidden_terms = SafetyFilterInit(data.forbidden_terms)
    /\ valid_terms = EducationalFilterInit(data.body_systems)
    /\ pc = "idle"
    /\ call = NoCall
    /\ result = NoResult

Init == InitWith(Vocabularies)

\* SafetyFilter.clean_prompt(prompt)
CleanPrompt ==
    /\ pc = "idle"
    /\ \E prompt \in FilterPrompts :
       \E cleaned \in CleanOutcomes(forbidden_terms, prompt) :
          /\ call' = [ op |-> "clean_prompt", prompt |-> prompt ]
          /\ result' = [ outcome |-> "ok", value |-> cleaned ]
    /\ pc' = "done"
    /\ UNCHANGED <<data, forbidden_terms, valid_terms>>

\* SafetyFilter.is_safe(prompt)
IsSafe ==
    /\ pc = "idle"
    /\ \E prompt \in FilterPrompts :
          /\ call' = [ op |-> "is_safe", prompt |-> prompt ]
          /\ result' = [ outcome |-> "ok", safe |-> is_safe(forbidden_terms, prompt) ]
    /\ pc' = "done"
    /\ UNCHANGED <<data, forbidden_terms, valid_terms>>

\* EducationalFilter.ensure_appropriate(prompt)
EnsureAppropriate ==
    /\ pc = "idle"
    /\ \E prompt \in EduPrompts :
          /\ call' = [ op |-> "ensure_appropriate", prompt |-> prompt ]
          /\ result' = [ outcome |-> "ok",
                         value |-> ensure_appropriate(valid_terms, prompt) ]
    /\ pc' = "done"
    /\ UNCHANGED <<data, forbidden_terms, valid_terms>>

\* PromptRefiner.enhance(prompt, focus, view_type)
Enhance ==
    /\ pc = "idle"
    /\ \E prompt \in EnhancePrompts, focus \in FocusArgs, view_type \in ViewArgs :
       \E r \in enhance(data, forbidden_terms, valid_terms, prompt, focus, view_type) :
          /\ call' = [ op |-> "enhance", prompt |-> prompt, focus |-> focus,
                       view_type |-> view_type ]
          /\ result' = r
          /\ data' = r.data
    /\ pc' = "done"
    /\ UNCHANGED <<forbidden_terms, valid_terms>>

\* PromptRefiner.get_system_info(system_name)
GetSystemInfo ==
    /\ pc = "idle"
    /\ \E system_name \in SystemArgs :
          /\ call' = [ op |-> "get_system_info", system_name |-> system_name ]
          /\ result' = get_system_info(data, system_name)
    /\ pc' = "done"
    /\ UNCHANGED <<data, forbidden_terms, valid_terms>>

\* PromptRefiner.list_supported_terms()
ListSupportedTerms ==
    /\ pc = "idle"
    /\ call' = [ op |-> "list_supported_terms" ]
    /\ result' = [ outcome |-> "ok", terms |-> list_supported_terms(data) ]
    /\ pc' = "done"
    /\ UNCHANGED <<data, forbidden_terms, valid_terms>>

\* EducationalFilter.validate_system_focus(prompt, system_name)
ValidateSystemFocus ==
    /\ pc = "idle"
    /\ \E prompt \in ValidatePrompts, system_name \in SystemArgs :
          /\ call' = [ op |-> "validate_system_focus", prompt |-> prompt,
                       system_name |-> system_name ]
          /\ result' = validate_system_focus(data.body_systems, prompt, system_name)
    /\ pc' = "done"
    /\ UNCHANGED <<data, forbidden_terms, valid_terms>>

\* EducationalFilter.get_age_appropriate_description(system_name)
GetAgeAppropriateDescription ==
    /\ pc = "idle"
    /\ \E system_name \in SystemArgs :
          /\ call' = [ op |-> "get_age_appropriate_description",
                       system_name |-> system_name ]
          /\ result' = get_age_appropriate_description(data.body_systems, system_name)
    /\ pc' = "done"
    /\ UNCHANGED <<data, forbidden_terms, valid_terms>>

\* DiffusersWrapper.__call__(prompt, focus, view_type, **kwargs)
WrapperCall ==
    /\ pc = "idle"
    /\ \E prompt \in WrapperPrompts, focus \in WrapperFocusArgs,
          view_type \in WrapperViewArgs, kwargs \in CallKwargs :
       \E r \in __call__(data, forbidden_terms, valid_terms, prompt, focus,
                          view_type, kwargs) :
          /\ call' = [ op |-> "__call__", prompt |-> prompt, focus |-> focus,
                       view_type |-> view_type, kwargs |-> kwargs ]
          /\ result' = r
          /\ data' = r.data
    /\ pc' = "done"
    /\ UNCHANGED <<forbidden_terms, valid_terms>>

\* DiffusersWrapper.generate_batch(prompts, **kwargs)
GenerateBatch ==
    /\ pc = "idle"
    /\ \E prompts \in Batches, kwargs \in BatchKwargs :
       \E r \in generate_batch(data, forbidden_terms, valid_terms, prompts, kwargs) :
          /\ call' = [ op |-> "generate_batch", prompts |-> prompts,
                       kwargs |-> kwargs ]
          /\ result' = r
    /\ pc' = "done"
    /\ UNCHANGED <<data, forbidden_terms, valid_terms>>

\* python -m prompt_refiner_anatomy with the parsed arguments  args
Main ==
    /\ pc = "idle"
    /\ \E args \in MainArgs :
       \E r \in main(data, forbidden_terms, valid_terms, args) :
          /\ call' = [ op |-> "main", args |-> args ]
          /\ result' = r
    /\ pc' = "done"
    /\ UNCHANGED <<data, forbidden_terms, valid_terms>>

\* the caller drops the result and is free to make the next call
Return ==
    /\ pc = "done"
    /\ pc' = "idle"
    /\ call' = NoCall
    /\ result' = NoResult
    /\ UNCHANGED <<data, forbidden_terms, valid_terms>>

Next ==
    \/ CleanPrompt
    \/ IsSafe
    \/ EnsureAppropriate
    \/ Enhance
    \/ GetSystemInfo
    \/ ListSupportedTerms
    \/ ValidateSystemFocus
    \/ GetAgeAppropriateDescription
    \/ WrapperCall
    \/ GenerateBatch
    \/ Main
    \/ Return

Spec == Init /\ [][Next]_vars

\* the same program constructed from any document, those whose lists are
\* shorter than a draw included
InitAny == InitWith(AllVocabularies)

SpecAny == InitAny /\ [][Next]_vars

(***************************************************************************)
(* Properties.                                                             *)
(***************************************************************************)
\* the call  op  has returned
Done(op) == pc = "done" /\ call.op = op

\* enhance has returned a result
Enhanced == Done("enhance") /\ result.outcome = "ok"

\* the whitespace-separated tokens of a text
Tokens(s) ==
    { SubSeq(s, sp[1], sp[2]) :
        sp \in { q \in (1..Len(s)) \X (1..Len(s)) :
                   /\ q[1] <= q[2]
                   /\ \A k \in q[1]..q[2] : Ch(s, k) \notin SpaceChars
                   /\ q[1] = 1 \/ Ch(s, q[1] - 1) \in SpaceChars
                   /\ q[2] = Len(s) \/ Ch(s, q[2] + 1) \in SpaceChars } }

\* the words the four NSFW patterns match
NsfwWords == UNION { Range(nsfw_patterns[i]) : i \in 1..Len(nsfw_patterns) }

\* the word  w  occurs in  text  as a whole word, in any case
WholeWordIn(w, text) == ReSearch(<<w>>, text)

\* the organ and structure names of one system, and of all systems
NamesOf(system_data) == Range(system_data.organs) \cup Range(system_data.structures)

AllNames(d) == UNION { NamesOf(d.body_systems[i]) : i \in 1..Len(d.body_systems) }

NoDuplicates(seq) == Cardinality(Range(seq)) = Len(seq)

\* C1: for every forbidden-term set and prompt, the text clean_prompt returns
\* contains no forbidden term (in any case) and no match of any of the four
\* NSFW patterns.
C1_CleanedHasNoForbiddenTerm ==
    Done("clean_prompt") =>
        /\ \A term \in forbidden_terms : ~Contains(Lower(result.value), term)
        /\ \A w \in NsfwWords : ~WholeWordIn(w, result.value)

\* C2: clean_prompt never returns the empty string, and when every token of
\* the prompt is deleted as a forbidden term or an NSFW word (or there is no
\* token at all) it returns exactly "human anatomy educational diagram".
C2_CleanedNeverEmpty ==
    Done("clean_prompt") =>
        /\ result.value # ""
        /\ (\A tok \in Tokens(Lower(call.prompt)) :
                tok \in forbidden_terms \cup NsfwWords)
           => result.value = "human anatomy educational diagram"

\* a prompt made of forbidden and NSFW words only came back as the fallback
C2_Witness ==
    /\ Done("clean_prompt")
    /\ Tokens(Lower(call.prompt)) # {}
    /\ Tokens(Lower(call.prompt)) \cap forbidden_terms # {}
    /\ \A tok \in Tokens(Lower(call.prompt)) : tok \in forbidden_terms \cup NsfwWords
    /\ result.value = "human anatomy educational diagram"

\* C3: ensure_appropriate is idempotent: applied to its own result it returns
\* that result unchanged.
C3_EnsureAppropriateIdempotent ==
    Done("ensure_appropriate") =>
        ensure_appropriate(valid_terms, result.value) = result.value

C5_DetectedTermsExact ==
    Enhanced =>
        /\ Range(result.detected_terms) =
              { n \in AllNames(data) :
                  Contains(Lower(result.cleaned_prompt), Lower(n)) }
        /\ NoDuplicates(result.detected_terms)

\* a name listed in two systems was detected, next to a name that is only a
\* part of a word of the prompt
C5_Witness ==
    /\ Enhanced
    /\ \E i, j \in 1..Len(data.body_systems) :
          /\ i # j
          /\ NamesOf(data.body_systems[i]) \cap NamesOf(data.body_systems[j])
                \cap Range(result.detected_terms) # {}
    /\ \E n \in Range(result.detected_terms) :
          n \notin Tokens(result.cleaned_prompt)

\* C6: a body system is in detected_systems iff one of its organ or
\* structure names equals, in any case and as a whole string, one of the
\* detected terms; detected_systems lists no system twice.
C6_DetectedSystemsExact ==
    Enhanced =>
        /\ \A i \in 1..Len(data.body_systems) :
              (data.body_systems[i].name \in Range(result.detected_systems))
              <=> \E n \in NamesOf(data.body_systems[i]) :
                  \E term \in Range(result.detected_terms) :
                      Lower(n) = Lower(term)
        /\ Range(result.detected_systems) \subseteq Range(SystemNames(data))
        /\ NoDuplicates(result.detected_systems)

\* a system was detected through one of its structures alone, next to a
\* system detected through an organ
C6_Witness ==
    /\ Enhanced
    /\ \E i \in 1..Len(data.body_systems) :
          /\ data.body_systems[i].name \in Range(result.detected_systems)
          /\ Range(data.body_systems[i].organs) \cap Range(result.detected_terms) = {}
    /\ \E i \in 1..Len(data.body_systems) :
          /\ data.body_systems[i].name \in Range(result.detected_systems)
          /\ Range(data.body_systems[i].organs) \cap Range(result.detected_terms) # {}

\* the cleaned form of the prompt of the call contains no organ or structure
\* name
NoNameInCleaned ==
    \A cleaned \in CleanOutcomes(forbidden_terms, call.prompt) :
        \A n \in AllNames(data) : ~Contains(Lower(cleaned), Lower(n))

\* C7: for a prompt whose cleaned form contains no organ or structure name,
\* enhance without focus returns without error, with empty detected_terms
\* and detected_systems and a positive prompt that contains "anatomical".
C7_UnknownTermStillEnhanced ==
    (Done("enhance") /\ ~Truthy(call.focus) /\ NoNameInCleaned) =>
        /\ result.outcome = "ok"
        /\ result.detected_terms = << >>
        /\ result.detected_systems = << >>
        /\ Contains(Lower(result.positive), "anatomical")

\* enhance without focus returned for a prompt of unknown words
C7_Witness ==
    /\ Done("enhance")
    /\ call.focus = None
    /\ Tokens(call.prompt) # {}
    /\ NoNameInCleaned
    /\ result.outcome = "ok"
    /\ Contains(Lower(result.positive), call.prompt)

\* C8: the negative prompt is the base negative_prompt_additions joined with
\* ", ", followed by the fragments of focus_negative_prompts[focus] exactly
\* when focus is one of its keys; every base fragment is in it for any focus.
C8_NegativePrompt ==
    Enhanced =>
        LET base == data.negative_prompt_additions
            extra == IF call.focus \in DOMAIN data.focus_negative_prompts
                     THEN data.focus_negative_prompts[call.focus]
                     ELSE << >>
        IN  /\ result.negative = Join(base \o extra, ", ")
            /\ \A i \in 1..Len(base) : Contains(result.negative, base[i])

\* a focus that has negative fragments but no focus template got them
C8_Witness ==
    /\ Enhanced
    /\ call.focus \in DOMAIN data.focus_negative_prompts
    /\ call.focus \notin DOMAIN data.focus_templates
    /\ EndsWith(result.negative,
                Join(data.focus_negative_prompts[call.focus], ", "))

\* the number of parts either branch assembles besides the view fragment
PartsWithoutView ==
    IF Truthy(call.focus) /\ call.focus \in DOMAIN data.focus_templates
    THEN 2 + Min(3, Len(data.focus_templates[call.focus].style_modifiers))
           + 1 + Min(4, Len(data.focus_templates[call.focus].optimization_tags))
    ELSE 2 + Min(2, Len(data.style_modifiers)) + 1 + 3

\* the place of the view fragment among the parts
ViewPosition ==
    IF Truthy(call.focus) /\ call.focus \in DOMAIN data.focus_templates
    THEN 3 ELSE 2

\* C9: on both branches the cross_section template filled with the first
\* detected term is appended exactly when view_type is "cross_section" and a
\* term was detected, the system_overview template filled with the first
\* detected system exactly when view_type is "system_overview" and a system
\* was detected, and no view fragment otherwise.
C9_ViewFragment ==
    Enhanced =>
        LET cross == call.view_type = "cross_section"
                     /\ result.detected_terms # << >>
            overview == call.view_type = "system_overview"
                        /\ result.detected_systems # << >>
        IN  /\ cross =>
                /\ Len(result.parts) = PartsWithoutView + 1
                /\ result.parts[ViewPosition] =
                      Format(data.enhancement_templates.cross_section,
                             "organ", result.detected_terms[1])
            /\ overview =>
                /\ Len(result.parts) = PartsWithoutView + 1
                /\ result.parts[ViewPosition] =
                      Format(data.enhancement_templates.system_overview,
                             "system", result.detected_systems[1])
            /\ (~cross /\ ~overview) => Len(result.parts) = PartsWithoutView

\* the focus branch appended the system overview of the first detected system
C9_Witness ==
    /\ Enhanced
    /\ Truthy(call.focus) /\ call.focus \in DOMAIN data.focus_templates
    /\ call.view_type = "system_overview"
    /\ Len(result.detected_systems) >= 2
    /\ result.parts[3] = Format(data.enhancement_templates.system_overview,
                                "system", result.detected_systems[1])

\* C10: no call of enhance, get_system_info or list_supported_terms changes
\* the vocabulary document: every step leaves data as it was.
C10_VocabularyUnchanged == [][data' = data]_vars

\* enhance returned a negative prompt extended by the fragments of a focus,
\* and the document is still the one loaded
C10_Witness ==
    /\ Enhanced
    /\ call.focus \in DOMAIN data.focus_negative_prompts
    /\ data \in Vocabularies
    /\ Len(result.negative) > Len(Join(data.negative_prompt_additions, ", "))

\* the entry of body_systems stored under the system name of the call
StoredSystem ==
    CHOOSE sd \in Range(data.body_systems) : sd.name = call.system_name

KnownSystem == call.system_name \in Range(SystemNames(data))

\* C11: no lookup by body-system name raises: get_system_info returns the
\* stored record of a known system and None for an unknown one,
\* validate_system_focus returns false for an unknown system, and
\* get_age_appropriate_description returns the stored description of a known
\* system and the fixed generic phrase for an unknown one.
C11_LookupsNeverRaise ==
    /\ Done("get_system_info") =>
          /\ result.outcome = "ok"
          /\ KnownSystem => (~result.is_none /\ result.value = StoredSystem)
          /\ ~KnownSystem => result.is_none
    /\ Done("validate_system_focus") =>
          /\ result.outcome = "ok"
          /\ ~KnownSystem => result.valid = FALSE
    /\ Done("get_age_appropriate_description") =>
          /\ result.outcome = "ok"
          /\ KnownSystem => result.value = StoredSystem.description
          /\ ~KnownSystem =>
                result.value = "body system that helps keep us healthy"

\* the description of an unknown system was asked for and the generic phrase
\* came back
C11_Witness ==
    /\ Done("get_age_appropriate_description")
    /\ ~KnownSystem
    /\ result.outcome = "ok"
    /\ result.value = "body system that helps keep us healthy"

\* C12: generate_batch over n terms returns exactly n results in the order
\* of the terms; the i-th result is None exactly when the call for the i-th
\* term raised; a failure never aborts the batch and every later term is
\* still attempted.
C12_BatchKeepsGoing ==
    Done("generate_batch") =>
        /\ result.outcome = "ok"
        /\ Len(result.results) = Len(call.prompts)
        /\ Len(result.attempts) = Len(call.prompts)
        /\ \A i \in 1..Len(call.prompts) :
              /\ result.attempts[i].term = call.prompts[i]
              /\ (result.results[i] = None) <=> result.attempts[i].raised
              /\ [ raised |-> result.attempts[i].raised,
                   value |-> result.results[i] ]
                    \in ItemOutcomes(data, forbidden_terms, valid_terms,
                                     call.prompts[i], call.kwargs)

\* the call for the first term of a batch raised, and the batch went on to
\* return an image for a later term
C12_Witness ==
    /\ Done("generate_batch")
    /\ Len(call.prompts) >= 2
    /\ result.outcome = "ok"
    /\ result.attempts[1].raised
    /\ result.results[1] = None
    /\ \E i \in 2..Len(call.prompts) :
          ~result.attempts[i].raised /\ result.results[i] = "<image>"

\* the ways the enhancement the command line asks for can end
MainEnhanceOutcomes ==
    { r.outcome : r \in enhance(data, forbidden_terms, valid_terms,
                                call.args.prompt, call.args.focus,
                                call.args.view_type) }

\* C13: the command line exits non-zero after printing the usage help when
\* no prompt is given and neither list-terms nor system-info is selected,
\* exits non-zero with an error message when system-info names an unknown
\* body system, and exits non-zero with an error message whenever the
\* enhancement raises; list-terms goes before system-info, system-info
\* before the prompt, and neither of the two runs the enhancement.
C13_CommandLineExits ==
    Done("main") =>
        LET args == call.args
            listing == args.list_terms
            describing == ~listing /\ Truthy(args.system_info)
            enhancing == ~listing /\ ~describing /\ Truthy(args.prompt)
        IN  /\ result.outcome = "exit"
            /\ listing =>
                  /\ result.code = 0
                  /\ result.stdout = << "terms as " \o args.output >>
                  /\ ~result.enhance_called
            /\ describing =>
                  /\ ~result.enhance_called
                  /\ Lower(args.system_info) \notin Range(SystemNames(data)) =>
                        /\ result.code # 0
                        /\ result.stderr =
                              << "Unknown body system: " \o args.system_info >>
                  /\ Lower(args.system_info) \in Range(SystemNames(data)) =>
                        /\ result.code = 0
                        /\ result.stdout = << "system info as " \o args.output >>
            /\ (~listing /\ ~describing /\ ~enhancing) =>
                  /\ result.code # 0
                  /\ result.stdout = << "usage" >>
                  /\ ~result.enhance_called
            /\ enhancing =>
                  /\ result.enhance_called
                  /\ result.code # 0 =>
                        /\ "raised" \in MainEnhanceOutcomes
                        /\ result.stderr # << >>
                        /\ result.stderr[1] = "Error enhancing prompt"
                        /\ result.stdout = << >>
                  /\ result.code = 0 =>
                        /\ "ok" \in MainEnhanceOutcomes
                        /\ result.stdout = << "enhancement as " \o args.output >>
                  /\ MainEnhanceOutcomes = {"raised"} => result.code # 0

\* system-info named an unknown system on a command line that also gave a
\* prompt: the error exit, and no enhancement
C13_Witness ==
    /\ Done("main")
    /\ ~call.args.list_terms
    /\ call.args.system_info = "unknown"
    /\ Truthy(call.args.prompt)
    /\ result.code = 1
    /\ result.stderr = << "Unknown body system: unknown" >>
    /\ ~result.enhance_called

\* a call of the wrapper got as far as calling the wrapped pipeline
PipelineCalled == Done("__call__") /\ "sent" \in DOMAIN result

\* the positive prompts the engine can return for the arguments of the call
EnginePositives ==
    { r.positive : r \in { e \in enhance(data, forbidden_terms, valid_terms,
                                         call.prompt, call.focus, call.view_type) :
                             e.outcome = "ok" } }

\* the negative prompt the engine returns for the focus of the call
EngineNegative ==
    Join(data.negative_prompt_additions
           \o (IF Truthy(call.focus) /\ call.focus \in DOMAIN data.focus_negative_prompts
               THEN data.focus_negative_prompts[call.focus] ELSE << >>),
         ", ")

\* what the adapter does with the parameters that are not prompts
OtherParametersForwarded ==
    /\ DOMAIN result.sent = DOMAIN call.kwargs \cup {"prompt", "negative_prompt"}
    /\ \A k \in DOMAIN call.kwargs \ {"prompt", "negative_prompt"} :
          result.sent[k] = call.kwargs[k]
    /\ "focus" \notin DOMAIN result.sent
    /\ "view_type" \notin DOMAIN result.sent

\* C14 as stated: the adapter calls the pipeline with the engine's positive
\* prompt as prompt and the engine's negative prompt as negative_prompt in
\* place of what the caller supplied, forwards every other keyword parameter
\* unchanged, and does not forward focus and view_type.
C14_EnginePromptsReplaceCallers ==
    PipelineCalled =>
        /\ result.sent["prompt"] \in EnginePositives
        /\ result.sent["negative_prompt"] = EngineNegative
        /\ OtherParametersForwarded

\* C14 amended: the adapter calls the pipeline with the engine's positive
\* prompt as prompt, with the caller's negative_prompt when the caller gave
\* one (an empty one too) and the engine's negative prompt otherwise,
\* forwards every other keyword parameter unchanged, and does not forward
\* focus and view_type.
C14_CallersNegativePromptKept ==
    PipelineCalled =>
        /\ result.sent["prompt"] \in EnginePositives
        /\ result.sent["negative_prompt"] =
              IF "negative_prompt" \in DOMAIN call.kwargs
              THEN call.kwargs["negative_prompt"]
              ELSE EngineNegative
        /\ OtherParametersForwarded

\* the pipeline was called with the negative prompt of the caller, not the
\* engine's, next to another parameter of the caller
C14_Witness ==
    /\ PipelineCalled
    /\ "negative_prompt" \in DOMAIN call.kwargs
    /\ "num_inference_steps" \in DOMAIN call.kwargs
    /\ result.sent["negative_prompt"] = call.kwargs["negative_prompt"]
    /\ result.sent["negative_prompt"] # EngineNegative
    /\ result.sent["num_inference_steps"] = call.kwargs["num_inference_steps"]

\* the number of parts of an enhancement result that precede the random
\* draws: two fragments and the view fragment, if there is one
HeadLen(r) ==
    IF \/ call.view_type = "cross_section" /\ r.detected_terms # << >>
       \/ call.view_type = "system_overview" /\ r.detected_systems # << >>
    THEN 3 ELSE 2

\* the outcomes of the style-modifier, view-modifier and optimization-tag
\* draws of an enhancement result, in the order drawn
DrawsOf(r) == SubSeq(r.parts, HeadLen(r) + 1, Len(r.parts))

\* C15: apart from the random modifier draws enhance is deterministic: any
\* other run on the same vocabulary, prompt, focus and view_type in which the
\* draws come out the same returns the same positive prompt, negative
\* prompt, detected_terms set and detected_systems set, and fills the same
\* term into the templates.
C15_DeterministicGivenDraws ==
    Enhanced =>
        \A other \in enhance(data, forbidden_terms, valid_terms,
                              call.prompt, call.focus, call.view_type) :
            (other.outcome = "ok" /\ DrawsOf(other) = DrawsOf(result)) =>
                /\ other.positive = result.positive
                /\ other.negative = result.negative
                /\ Range(other.detected_terms) = Range(result.detected_terms)
                /\ Range(other.detected_systems) = Range(result.detected_systems)
                /\ other.parts[1] = result.parts[1]

\* enhance returned from the focus branch, or from the default branch
OnFocusPath == Enhanced /\ UsesFocusTemplate(data, call.focus)

OnDefaultPath == Enhanced /\ ~UsesFocusTemplate(data, call.focus)

\* C16 as stated: on the default path with no detected term the first
\* fragment is "anatomical illustration, " followed by the prompt as the
\* caller supplied it, not the output of the safety filter, whereas the
\* focus path fills its style_prefix with the cleaned prompt.
C16_DefaultPathUsesOriginalPrompt ==
    /\ (OnDefaultPath /\ result.detected_terms = << >>) =>
          result.parts[1] = "anatomical illustration, " \o call.prompt
    /\ (OnFocusPath /\ result.detected_terms = << >>) =>
          result.parts[1] =
              Format(data.focus_templates[call.focus].style_prefix, "organ",
                     result.cleaned_prompt)

\* C16 amended: on the default path with no detected term the first fragment
\* is "anatomical illustration, " followed by the cleaned prompt, the output
\* of the safety filter for the caller's prompt; the focus path fills its
\* style_prefix with the same cleaned prompt.
C16_BothPathsUseCleanedPrompt ==
    /\ Enhanced =>
          result.cleaned_prompt \in CleanOutcomes(forbidden_terms, call.prompt)
    /\ (OnDefaultPath /\ result.detected_terms = << >>) =>
          result.parts[1] = "anatomical illustration, " \o result.cleaned_prompt
    /\ (OnFocusPath /\ result.detected_terms = << >>) =>
          result.parts[1] =
              Format(data.focus_templates[call.focus].style_prefix, "organ",
                     result.cleaned_prompt)

\* the default path built its first fragment from a cleaned prompt that is
\* not the prompt of the caller
C16_Witness ==
    /\ OnDefaultPath
    /\ result.detected_terms = << >>
    /\ Tokens(call.prompt) # {}
    /\ result.cleaned_prompt # call.prompt
    /\ result.parts[1] = "anatomical illustration, " \o result.cleaned_prompt

\* the whitespace-separated words of a text from position  from  on, in order
RECURSIVE WordsFrom(_, _)
WordsFrom(s, from) ==
    LET starts == { i \in from..Len(s) : Ch(s, i) \notin SpaceChars }
    IN  IF starts = {} THEN << >>
        ELSE LET lo == MinOf(starts)
                 stops == { i \in lo..Len(s) : Ch(s, i) \in SpaceChars }
                 hi == IF stops = {} THEN Len(s) ELSE MinOf(stops) - 1
             IN  << SubSeq(s, lo, hi) >> \o WordsFrom(s, hi + 1)

\* the terms of the advanced-medical table, and the synonym of one of them
AdvancedTerms == { advanced_medical[i][1] : i \in 1..Len(advanced_medical) }

SynonymOf(term) ==
    advanced_medical[CHOOSE i \in 1..Len(advanced_medical) :
                        advanced_medical[i][1] = term][2]

\* what becomes of the words of a prompt: a forbidden word goes, also when
\* the table has a synonym for it; an NSFW word goes; another word of the
\* table becomes its synonym; any other word stays
RECURSIVE WordsKept(_, _)
WordsKept(words, i) ==
    IF i > Len(words) THEN << >>
    ELSE (IF words[i] \in forbidden_terms \cup NsfwWords THEN << >>
          ELSE IF words[i] \in AdvancedTerms THEN << SynonymOf(words[i]) >>
          ELSE << words[i] >>)
         \o WordsKept(words, i + 1)

\* C17: in clean_prompt a term that is both forbidden and in the
\* advanced-medical table is deleted, never replaced by its synonym, in
\* whatever order the forbidden-term set is iterated; an advanced-medical
\* term that is not forbidden is replaced by its synonym.  For a prompt of
\* plain words: the result is its lower-cased words with the forbidden ones
\* deleted and the other advanced ones replaced.
C17_ForbiddenDeletedNotReplaced ==
    Done("clean_prompt") =>
        LET kept == WordsKept(WordsFrom(Lower(call.prompt), 1), 1)
        IN  result.value = IF kept = << >>
                           THEN "human anatomy educational diagram"
                           ELSE Join(kept, " ")

\* a prompt with a word that is forbidden and in the table, and a word that
\* is in the table only: the first is gone without its synonym, the second
\* is replaced
C17_Witness ==
    /\ Done("clean_prompt")
    /\ \E t \in Tokens(Lower(call.prompt)) \cap forbidden_terms \cap AdvancedTerms :
          /\ ~Contains(result.value, t)
          /\ ~Contains(result.value, SynonymOf(t))
    /\ \E u \in (Tokens(Lower(call.prompt)) \cap AdvancedTerms) \ forbidden_terms :
          /\ ~Contains(result.value, u)
          /\ Contains(result.value, SynonymOf(u))

\* a text contains a valid term (an organ or a keyword), in any case
HasValidTerm(text) == \E term \in valid_terms : Contains(Lower(text), term)

\* a text contains one of the positive educational indicator words
HasIndicator(text) ==
    \E w \in {"diagram", "illustration", "educational", "learning", "study",
               "science", "anatomy", "medical", "textbook", "simplified"} :
        Contains(Lower(text), w)

\* C18 as stated: ensure_appropriate prepends "human anatomy educational
\* diagram, " exactly when the input contains no valid term and, whether or
\* not the prefix was added, appends ", educational illustration for
\* elementary science" exactly when the input contains no positive
\* indicator word; the simplification runs last, over the whole string.
C18_PrefixAndSuffixIndependent ==
    Done("ensure_appropriate") =>
        result.value =
            _simplify_language(
                (IF ~HasValidTerm(call.prompt)
                 THEN "human anatomy educational diagram, " ELSE "")
                \o call.prompt
                \o (IF ~HasIndicator(call.prompt)
                    THEN ", educational illustration for elementary science"
                    ELSE ""))

\* C18 amended: the prefix is prepended exactly when the input contains no
\* valid term; the suffix is appended exactly when the prompt as it is after
\* the prefix step contains no positive indicator word, which, the prefix
\* holding such words, is exactly when the input contains a valid term and
\* no indicator word; the simplification runs last, over the whole string.
C18_SuffixOnlyWithoutPrefix ==
    Done("ensure_appropriate") =>
        result.value =
            _simplify_language(
                (IF ~HasValidTerm(call.prompt)
                 THEN "human anatomy educational diagram, " ELSE "")
                \o call.prompt
                \o (IF HasValidTerm(call.prompt) /\ ~HasIndicator(call.prompt)
                    THEN ", educational illustration for elementary science"
                    ELSE ""))

\* a prompt with neither a valid term nor an indicator word got the prefix
\* and no suffix
C18_Witness ==
    /\ Done("ensure_appropriate")
    /\ Tokens(call.prompt) # {}
    /\ ~HasValidTerm(call.prompt)
    /\ ~HasIndicator(call.prompt)
    /\ StartsWith(result.value, "human anatomy educational diagram, ")
    /\ ~EndsWith(result.value, ", educational illustration for elementary science")

\* the view fragment the view_type of the call asks for, given what was
\* detected: none, or the one template filled
ExpectedViewParts ==
    IF call.view_type = "cross_section" /\ result.detected_terms # << >>
    THEN << Format(data.enhancement_templates.cross_section, "organ",
                   result.detected_terms[1]) >>
    ELSE IF call.view_type = "system_overview" /\ result.detected_systems # << >>
    THEN << Format(data.enhancement_templates.system_overview, "system",
                   result.detected_systems[1]) >>
    ELSE << >>

\* seq is made of n distinct entries of the list  population
DrawnFrom(seq, population, n) ==
    /\ Len(seq) = n
    /\ NoDuplicates(seq)
    /\ Range(seq) \subseteq Range(population)

\* C19: when focus is a key of focus_templates the assembled positive
\* prompt is, in this order and joined with ", ": the style_prefix of the
\* focus filled with the first detected term or, if none, the cleaned
\* prompt; the context of the focus; at most one view fragment;
\* min(3, available) distinct style_modifiers of the focus; one
\* view_modifier of the focus; min(4, available) distinct optimization_tags
\* of the focus; and nothing from the global base templates or the global
\* modifier lists.
C19_FocusPathAssembly ==
    OnFocusPath =>
        LET focus_config == data.focus_templates[call.focus]
            parts == result.parts
            head == 2 + Len(ExpectedViewParts)
            styles == Min(3, Len(focus_config.style_modifiers))
            tags == Min(4, Len(focus_config.optimization_tags))
        IN  /\ Len(parts) = head + styles + 1 + tags
            /\ parts[1] = Format(focus_config.style_prefix, "organ",
                                 IF result.detected_terms # << >>
                                 THEN result.detected_terms[1]
                                 ELSE result.cleaned_prompt)
            /\ parts[2] = focus_config.context
            /\ SubSeq(parts, 3, head) = ExpectedViewParts
            /\ DrawnFrom(SubSeq(parts, head + 1, head + styles),
                         focus_config.style_modifiers, styles)
            /\ parts[head + styles + 1] \in Range(focus_config.view_modifiers)
            /\ DrawnFrom(SubSeq(parts, head + styles + 2, Len(parts)),
                         focus_config.optimization_tags, tags)
            /\ result.positive = ensure_appropriate(valid_terms, Join(parts, ", "))

\* the focus path drew three of four style modifiers of a focus that shares
\* none with the global list, and filled the prefix with the cleaned prompt
C19_Witness ==
    /\ OnFocusPath
    /\ Len(data.focus_templates[call.focus].style_modifiers) > 3
    /\ Range(data.focus_templates[call.focus].style_modifiers)
          \cap Range(data.style_modifiers) = {}
    /\ result.detected_terms = << >>
    /\ result.parts[1] = Format(data.focus_templates[call.focus].style_prefix,
                                "organ", result.cleaned_prompt)
    /\ Len(result.parts) = 2 + 3 + 1 + 1

\* enhance was called with no focus or a focus without template
DefaultCall == Done("enhance") /\ ~UsesFocusTemplate(data, call.focus)

\* the default path assembled, after the base fragment, the optional view
\* fragment and the educational_context template,  styles  distinct global
\* style modifiers, one global view modifier and three distinct global
\* 3d_optimization_tags
DefaultPathAssembly(styles) ==
    LET parts == result.parts
        head == 2 + Len(ExpectedViewParts)
    IN  /\ Len(parts) = head + styles + 1 + 3
        /\ parts[1] = IF result.detected_terms # << >>
                      THEN Format(data.enhancement_templates.medical_illustration,
                                  "organ", result.detected_terms[1])
                      ELSE "anatomical illustration, " \o result.cleaned_prompt
        /\ SubSeq(parts, 2, head - 1) = ExpectedViewParts
        /\ parts[head] = data.enhancement_templates.educational_context
        /\ DrawnFrom(SubSeq(parts, head + 1, head + styles),
                     data.style_modifiers, styles)
        /\ parts[head + styles + 1] \in Range(data.view_modifiers)
        /\ DrawnFrom(SubSeq(parts, head + styles + 2, Len(parts)),
                     data.optimization_tags_3d, 3)

\* C20 as stated: the default path appends exactly 2 distinct global style
\* modifiers, one global view modifier and exactly 3 distinct global
\* 3d_optimization_tags, and enhance fails, returning no result, whenever
\* there are fewer than 3 optimization tags or fewer than 2 style modifiers.
C20_DefaultPathExactSamples ==
    /\ OnDefaultPath => DefaultPathAssembly(2)
    /\ (DefaultCall /\ (Len(data.optimization_tags_3d) < 3
                         \/ Len(data.style_modifiers) < 2)) =>
          result.outcome = "raised"

\* C20 amended: the default path appends min(2, available) distinct global
\* style modifiers, one global view modifier and exactly 3 distinct global
\* 3d_optimization_tags; enhance fails, returning no result, whenever there
\* are fewer than 3 optimization tags, whereas fewer than 2 style modifiers
\* give a prompt with the style modifiers there are.
C20_StyleSampleClamped ==
    /\ OnDefaultPath =>
          DefaultPathAssembly(Min(2, Len(data.style_modifiers)))
    /\ (DefaultCall /\ Len(data.optimization_tags_3d) < 3) =>
          result.outcome = "raised"
    /\ (DefaultCall /\ Len(data.optimization_tags_3d) >= 3
                     /\ Len(data.view_modifiers) >= 1) =>
          result.outcome = "ok"

\* enhance on the default path failed on a document with two optimization
\* tags and two style modifiers
C20_Witness ==
    /\ DefaultCall
    /\ Len(data.optimization_tags_3d) = 2
    /\ Len(data.style_modifiers) = 2
    /\ result.outcome = "raised"

\* C21: the result of ensure_appropriate contains at least one positive
\* educational indicator word, for every vocabulary and prompt and also
\* where the simplification pass rewrote the prompt; hence so does every
\* positive prompt enhance returns.
C21_ResultHasEducationalIndicator ==
    /\ Done("ensure_appropriate") => HasIndicator(result.value)
    /\ Enhanced => HasIndicator(result.positive)

\* ensure_appropriate was given a prompt with a valid term and no indicator
\* word, and the simplification pass rewrote a word of it
C21_Witness ==
    /\ Done("ensure_appropriate")
    /\ HasValidTerm(call.prompt)
    /\ ~HasIndicator(call.prompt)
    /\ _simplify_language(call.prompt) # call.prompt
    /\ ~Contains(result.value, call.prompt)
    /\ HasIndicator(result.value)

\* the system named  system_name  has  term  among its organs and
\* structures, in any case
Owns(system_name, term) ==
    \E sd \in Range(data.body_systems) :
        /\ sd.name = system_name
        /\ \E n \in NamesOf(sd) : Lower(n) = Lower(term)

\* C22: in every result of enhance, detected_systems is empty exactly when
\* detected_terms is empty, every detected term is an organ or structure
\* (in any case) of at least one detected system, and every detected
\* system owns at least one detected term.
C22_TermsAndSystemsAgree ==
    Enhanced =>
        /\ (result.detected_systems = << >>) <=> (result.detected_terms = << >>)
        /\ \A term \in Range(result.detected_terms) :
              \E system_name \in Range(result.detected_systems) :
                  Owns(system_name, term)
        /\ \A system_name \in Range(result.detected_systems) :
              \E term \in Range(result.detected_terms) :
                  Owns(system_name, term)

\* enhance detected two terms owned by different systems only, one of them
\* owned by two systems
C22_Witness ==
    /\ Enhanced
    /\ \E t1, t2 \in Range(result.detected_terms) :
          /\ t1 # t2
          /\ \A system_name \in Range(result.detected_systems) :
                ~(Owns(system_name, t1) /\ Owns(system_name, t2))
          /\ Cardinality({ system_name \in Range(result.detected_systems) :
                             Owns(system_name, t1) }) = 2

\* the template the call fills first: the style_prefix of its focus, or
\* medical_illustration on the default path
BaseTemplate ==
    IF UsesFocusTemplate(data, call.focus)
    THEN data.focus_templates[call.focus].style_prefix
    ELSE data.enhancement_templates.medical_illustration

\* where the view fragment stands among the parts: after style_prefix and
\* context on the focus path, after the base fragment on the default path
ViewIndex == IF UsesFocusTemplate(data, call.focus) THEN 3 ELSE 2

\* the fragments that come from the vocabulary alone or from the vocabulary
\* filled with a detected term or system
VocabularyFragments ==
    LET focus_configs == { data.focus_templates[f] : f \in DOMAIN data.focus_templates }
    IN  { data.enhancement_templates.educational_context }
        \cup { fc.context : fc \in focus_configs }
        \cup UNION { Range(fc.style_modifiers) \cup Range(fc.view_modifiers)
                      \cup Range(fc.optimization_tags) : fc \in focus_configs }
        \cup Range(data.style_modifiers) \cup Range(data.view_modifiers)
        \cup Range(data.optimization_tags_3d)
        \cup { Format(data.enhancement_templates.cross_section, "organ", t) :
                 t \in Range(result.detected_terms) }
        \cup { Format(data.enhancement_templates.system_overview, "system", sn) :
                 sn \in Range(result.detected_systems) }

\* C23: whenever at least one term is detected, the term filled into the
\* base template (style_prefix or medical_illustration) is a detected term
\* and the same term fills the cross_section template of the call; no
\* fragment is then made of the prompt text, which is placed in the positive
\* prompt only when no term is detected.
C23_OnePrimaryTerm ==
    (Enhanced /\ result.detected_terms # << >>) =>
        /\ \E term \in Range(result.detected_terms) :
              /\ result.parts[1] = Format(BaseTemplate, "organ", term)
              /\ call.view_type = "cross_section" =>
                    result.parts[ViewIndex] =
                        Format(data.enhancement_templates.cross_section,
                               "organ", term)
        /\ \A i \in 2..Len(result.parts) :
              result.parts[i] \in VocabularyFragments
        /\ result.positive =
              ensure_appropriate(valid_terms, Join(result.parts, ", "))

\* enhance detected two terms in a cross_section call and filled both
\* templates with one that is not the prompt, which the positive prompt
\* does not contain
C23_Witness ==
    /\ Enhanced
    /\ Len(result.detected_terms) >= 2
    /\ call.view_type = "cross_section"
    /\ result.detected_terms[1] # result.cleaned_prompt
    /\ result.parts[1] = Format(BaseTemplate, "organ", result.detected_terms[1])
    /\ result.parts[ViewIndex] =
          Format(data.enhancement_templates.cross_section, "organ",
                 result.detected_terms[1])
    /\ ~Contains(result.positive, result.cleaned_prompt)

====
